---------------------------- MODULE Spec2Model ----------------------------
(***************************************************************************)
(* Model of model/train.py: load a batch of samples, build the             *)
(* policy/value network, optionally load initial weights, fit with early   *)
(* stopping and NaN termination, then export the trained model.            *)
(***************************************************************************)
EXTENDS Integers, Sequences, FiniteSets, TLC

\* ------------------------------------------------------------- bounds
\* Largest len(batch["Y_value"]) of a stored batch.
MaxSamples == 4
\* Validation losses are drawn from 0..MaxLoss, in units of half a min_delta
\* (0.00005), or are not-a-number.
MaxLoss == 27
\* Raw policy scores (the linear Dense output) are drawn from -MaxLogit..MaxLogit.
MaxLogit == 1
\* policy_shape values tried for build_model's policy head.
MaxOutputs == 3

\* ------------------------------------------------- program constants
MAX_HISTORY == 58
N_ACTION_FEATURES == 16
NUM_CARD_TYPES == 11
MAX_CARDS_IN_DRAW_PILE == 13
MAX_INSERT_POSITIONS == 8
N_OUTPUTS == 2 * NUM_CARD_TYPES + MAX_INSERT_POSITIONS + 1

\* model.fit(epochs=50)
EPOCHS == 50
\* model.fit(validation_split=0.1), in percent
FIT_VALIDATION_SPLIT == 10
\* --validation_split default=0.1, in percent
DEFAULT_VALIDATION_SPLIT == 10
\* EarlyStopping(min_delta=0.0001), in loss units of 0.00005
MIN_DELTA == 2
\* EarlyStopping(patience=5)
PATIENCE == 5
NoRestoreBestWeights == FALSE
\* EarlyStopping(restore_best_weights=True)
RESTORE_BEST_WEIGHTS == TRUE

\* Values of --validation_split a caller passes (percent).
ValidationSplits == {DEFAULT_VALIDATION_SPLIT, 50}
\* --initial_weights: omitted, a weights file of this architecture, or one of
\* another architecture.
InitialWeights == {"none", "compatible", "incompatible"}

VARIABLES
    pc,            \* position in main()
    error,         \* the exception that ended main(), or "none"
    args,          \* parsed command line
    file,          \* the npz input: len(Y_value) and each array's element count
    data,          \* (X, y) returned by load_data
    model,         \* the built network: its shapes and its weights
    epoch,         \* fit's epoch index (0-based, as Keras passes to callbacks)
    stop_training, \* model.stop_training
    logs,          \* the epoch's logs: whether loss and val_loss are NaN
    es,            \* the EarlyStopping callback's fields
    split,         \* fit's train/validation partition of the sample indices
    output,        \* the directory at args.output
    fwd            \* one forward pass of the policy head: scores, mask, policy

vars == <<pc, error, args, file, data, model, epoch, stop_training, logs, es,
          split, output, fwd>>

\* ------------------------------------------------------------ helpers
RECURSIVE Prod(_)
Prod(shape) == IF shape = <<>> THEN 1 ELSE Head(shape) * Prod(Tail(shape))

RECURSIVE SumOver(_, _)
SumOver(f, S) ==
    IF S = {} THEN 0
    ELSE LET i == CHOOSE x \in S : TRUE IN f[i] + SumOver(f, S \ {i})

\* ---------------------------------------------------------- load_data
Fields == {"X_history", "X_hands", "X_drawpile", "X_output_mask",
           "Y_policy", "Y_value"}

\* The per-sample shape load_data reshapes each field to.
SampleShape(field) ==
    CASE field = "X_history" -> <<MAX_HISTORY, N_ACTION_FEATURES>>
      [] field = "X_hands" -> <<3 * NUM_CARD_TYPES>>
      [] field = "X_drawpile" -> <<MAX_CARDS_IN_DRAW_PILE, NUM_CARD_TYPES>>
      [] field = "X_output_mask" -> <<N_OUTPUTS>>
      [] field = "Y_policy" -> <<N_OUTPUTS>>
      [] field = "Y_value" -> <<1>>

\* numpy's ndarray.reshape: succeeds exactly when the element count is kept.
ReshapeTruncating(size, shape) == size >= Prod(shape)
CanReshape(size, shape) == size = Prod(shape)

\* load_data: n_samples is len(Y_value); every field is reshaped to
\* (n_samples,) + its per-sample shape; the first reshape that fails raises.
load_data(f) ==
    LET n == f.n_samples
        ok == \A fld \in Fields : CanReshape(f.size[fld], <<n>> \o SampleShape(fld))
    IN IF ok THEN [ok |-> TRUE, n_samples |-> n]
             ELSE [ok |-> FALSE, n_samples |-> 0]

NoData == [ok |-> FALSE, n_samples |-> 0]

\* A stored batch: n_samples is len(Y_value) and size[fld] the element count
\* of the raw array stored under fld.  d[fld] is the array's deviation from
\* its declared size: Y_value is an array whose first dimension is n_samples,
\* so it holds n_samples * k elements (k = 1 + d); every other array holds
\* d elements more than n_samples times its per-sample size.
FileOf(n, d) ==
    [n_samples |-> n,
     size |-> [fld \in Fields |->
                 IF fld = "Y_value" THEN n * (1 + d[fld])
                 ELSE n * Prod(SampleShape(fld)) + d[fld]]]

Files ==
    { FileOf(n, d) : n \in 0..MaxSamples,
                     d \in { e \in [Fields -> {-1, 0, 1}] :
                               e["Y_value"] \in {0, 1} } }

\* Whether some array's element count is not n_samples times its declared
\* per-sample size.
Mismatched(f) ==
    \E fld \in Fields : f.size[fld] # f.n_samples * Prod(SampleShape(fld))

\* ------------------------------------------------------- build_model
FreshWeights == [origin |-> "fresh", updates |-> 0]
NoModel == [built |-> FALSE, policy_shape |-> 0,
            weights |-> [origin |-> "none", updates |-> 0]]

\* build_model: a compiled network with freshly initialised weights whose
\* policy head has policy_shape outputs.
build_model(policy_shape) ==
    [built |-> TRUE, policy_shape |-> policy_shape, weights |-> FreshWeights]

\* exp(z) in thousandths, for the scores the model draws.
ExpMilli(z) ==
    CASE z = -3 -> 50 [] z = -2 -> 135 [] z = -1 -> 368 [] z = 0 -> 1000
      [] z = 1 -> 2718 [] z = 2 -> 7389 [] z = 3 -> 20086

\* keras.layers.Multiply: the element-wise product.
Multiply(a, b) == [i \in DOMAIN a |-> a[i] * b[i]]

\* keras.layers.Softmax: policy[i] = exp(x[i]) / sum_j exp(x[j]), kept as the
\* exact ratio num/den of the fixed-point exponentials.
Softmax(x) ==
    LET e == [i \in DOMAIN x |-> ExpMilli(x[i])]
    IN [i \in DOMAIN x |-> [num |-> e[i], den |-> SumOver(e, DOMAIN x)]]

\* The policy head: policy_masked = Multiply([policy_hidden_1, output_mask]),
\* policy_output = Softmax(policy_masked).
PolicyHead(policy_hidden_1, output_mask) ==
    Softmax(Multiply(policy_hidden_1, output_mask))

NoFwd == [computed |-> FALSE, scores |-> <<>>, output_mask |-> <<>>,
          policy |-> <<>>]

\* ------------------------------------------------------------- fit
\* Keras' train_validation_split over sample indices 1..n with fraction
\* p / 100: split_at = floor(n * (1 - p/100)); the training part is the first
\* split_at samples and the validation part the rest; it raises when either
\* part would be empty.
SplitAt(n, p) == (n * (100 - p)) \div 100

train_validation_split_prefix(n, p) ==
    LET split_at == SplitAt(n, p)
    IN [ok |-> split_at # 0 /\ split_at # n,
        train |-> (n - split_at + 1)..n,
        val |-> 1..(n - split_at)]

train_validation_split(n, p) ==
    LET split_at == SplitAt(n, p)
    IN [ok |-> split_at # 0 /\ split_at # n,
        train |-> 1..split_at,
        val |-> (split_at + 1)..n]

NoSplit == [ok |-> FALSE, train |-> {}, val |-> {}]

NaN == [nan |-> TRUE, v |-> 0]
Finite(x) == [nan |-> FALSE, v |-> x]
ValLosses == {NaN} \cup {Finite(x) : x \in 0..MaxLoss}

\* EarlyStopping.on_train_begin
es_on_train_begin ==
    [wait |-> 0, stopped_epoch |-> 0, best |-> [inf |-> TRUE, v |-> 0],
     best_weights |-> <<>>, best_epoch |-> 0]

\* EarlyStopping._is_improvement with monitor_op = np.less and min_delta
\* negated for a minimised monitor: current + min_delta < best.  A comparison
\* with not-a-number is false; every finite value is below infinity.
IsImprovement(current, best) ==
    /\ ~current.nan
    /\ (best.inf \/ current.v + MIN_DELTA < best.v)

\* EarlyStopping.on_epoch_end(epoch, logs) for monitor = val_loss: the
\* callback's new fields, whether it set model.stop_training, and the
\* model's weights afterwards.
es_on_epoch_end(s, e, current, weights) ==
    LET bw0 == IF RESTORE_BEST_WEIGHTS /\ s.best_weights = <<>>
               THEN <<weights>> ELSE s.best_weights
        better == IsImprovement(current, s.best)
        s1 == IF better
              THEN [s EXCEPT !.best = [inf |-> FALSE, v |-> current.v],
                             !.best_epoch = e,
                             !.best_weights =
                                 IF RESTORE_BEST_WEIGHTS THEN <<weights>> ELSE bw0,
                             !.wait = 0]
              ELSE [s EXCEPT !.best_weights = bw0, !.wait = s.wait + 1]
        fire == ~better /\ s1.wait >= PATIENCE /\ e > 0
    IN [es |-> IF fire THEN [s1 EXCEPT !.stopped_epoch = e] ELSE s1,
        stop |-> fire,
        weights |-> IF fire /\ RESTORE_BEST_WEIGHTS /\ s1.best_weights # <<>>
                    THEN s1.best_weights[1] ELSE weights]

\* fit's epoch loop ends when a callback set model.stop_training or the last
\* of the EPOCHS epochs has run.
LoopEndsIgnoringStop(stop, e) == e = EPOCHS - 1
LoopEnds(stop, e) == stop \/ e = EPOCHS - 1

\* The logs of an epoch, kept as what the callbacks' NaN tests see of them;
\* val_loss_nan is <<>> until the epoch's validation has run.
NoLogs == [loss_nan |-> FALSE, val_loss_nan |-> <<>>]

\* ------------------------------------------------------------ export
ExportFiles == {"saved_model", "weights.h5", "model.pdf", "metrics.pdf"}
OldExport == [exists |-> TRUE, files |-> {<<f, "old">> : f \in ExportFiles}]
Absent == [exists |-> FALSE, files |-> {}]

\* Writing file f of this run into the output directory.
WriteFile(out, f) ==
    [exists |-> TRUE,
     files |-> {x \in out.files : x[1] # f} \cup {<<f, "new">>}]

\* ------------------------------------------------------------- main
Args == [validation_split : ValidationSplits, initial_weights : InitialWeights]

Init ==
    /\ pc = "start"
    /\ error = "none"
    /\ args \in Args
    /\ file \in Files
    /\ data = NoData
    /\ model = NoModel
    /\ epoch = 0
    /\ stop_training = FALSE
    /\ logs = NoLogs
    /\ es = es_on_train_begin
    /\ split = NoSplit
    /\ output \in {Absent, OldExport}
    /\ fwd = NoFwd

\* X, y = load_data(args.input): a reshape that fails raises ValueError.
LoadData ==
    /\ pc = "start" /\ error = "none"
    /\ LET r == load_data(file)
       IN IF r.ok
          THEN /\ data' = r
               /\ pc' = "loaded"
               /\ error' = error
          ELSE /\ error' = "ValueError"
               /\ UNCHANGED <<data, pc>>
    /\ UNCHANGED <<args, file, model, epoch, stop_training, logs, es, split,
                   output, fwd>>

\* The shape probe X[...][0] (IndexError on an empty batch) and build_model.
BuildModel ==
    /\ pc = "loaded" /\ error = "none"
    /\ IF data.n_samples = 0
       THEN /\ error' = "IndexError"
            /\ UNCHANGED <<model, pc>>
       ELSE /\ model' = build_model(N_OUTPUTS)
            /\ pc' = "built"
            /\ error' = error
    /\ UNCHANGED <<args, file, data, epoch, stop_training, logs, es, split,
                   output, fwd>>

\* model.load_weights(path): the weights after it, or a ValueError when the
\* stored weights do not have the shapes of the built model.
load_weights(m, w) ==
    IF w = "compatible"
    THEN [ok |-> TRUE, model |-> [m EXCEPT !.weights.origin = "loaded"]]
    ELSE [ok |-> FALSE, model |-> m]

\* if args.initial_weights: model.load_weights(args.initial_weights)
LoadWeightsIgnoringMismatch ==
    /\ pc = "built" /\ error = "none"
    /\ pc' = "ready"
    /\ model' = IF args.initial_weights = "compatible"
                THEN load_weights(model, "compatible").model ELSE model
    /\ UNCHANGED <<error, args, file, data, epoch, stop_training, logs, es,
                   split, output, fwd>>

LoadWeights ==
    /\ pc = "built" /\ error = "none"
    /\ IF args.initial_weights = "none"
       THEN /\ pc' = "ready"
            /\ UNCHANGED <<model, error>>
       ELSE LET r == load_weights(model, args.initial_weights)
            IN IF r.ok
               THEN /\ model' = r.model
                    /\ pc' = "ready"
                    /\ error' = error
               ELSE /\ error' = "ValueError"
                    /\ UNCHANGED <<model, pc>>
    /\ UNCHANGED <<args, file, data, epoch, stop_training, logs, es, split,
                   output, fwd>>

\* model.fit(...) up to its first epoch: the validation split of the samples
\* (ValueError when a part is empty), stop_training reset, on_train_begin.
FitBegin ==
    /\ pc = "ready" /\ error = "none"
    /\ LET r == train_validation_split(data.n_samples, FIT_VALIDATION_SPLIT)
       IN IF r.ok
          THEN /\ split' = r
               /\ es' = es_on_train_begin
               /\ epoch' = 0
               /\ stop_training' = FALSE
               /\ pc' = "fit_train"
               /\ error' = error
          ELSE /\ error' = "ValueError"
               /\ UNCHANGED <<split, es, epoch, stop_training, pc>>
    /\ UNCHANGED <<args, file, data, model, logs, output, fwd>>

\* The batches of one epoch: the optimizer updates the weights;
\* TerminateOnNaN.on_batch_end sets stop_training when the loss is NaN.
TrainBatches ==
    /\ pc = "fit_train" /\ error = "none"
    /\ \E loss_nan \in BOOLEAN :
          /\ logs' = [loss_nan |-> loss_nan, val_loss_nan |-> <<>>]
          /\ stop_training' = (stop_training \/ loss_nan)
    /\ model' = [model EXCEPT !.weights.updates = epoch + 1]
    /\ pc' = "fit_validate"
    /\ UNCHANGED <<error, args, file, data, epoch, es, split, output, fwd>>

\* The end of an epoch: validation, EarlyStopping.on_epoch_end, and the
\* loop's test of stop_training.  Weights that produced a NaN training loss
\* give a NaN validation loss.
EpochEnd ==
    /\ pc = "fit_validate" /\ error = "none"
    /\ \E val_loss \in (IF logs.loss_nan THEN {NaN} ELSE ValLosses) :
          LET r == es_on_epoch_end(es, epoch, val_loss, model.weights)
              stop == stop_training \/ r.stop
          IN /\ logs' = [logs EXCEPT !.val_loss_nan = <<val_loss.nan>>]
             /\ es' = r.es
             /\ model' = [model EXCEPT !.weights = r.weights]
             /\ stop_training' = stop
             /\ IF LoopEnds(stop, epoch)
                THEN /\ pc' = "fitted"
                     /\ epoch' = epoch
                ELSE /\ pc' = "fit_train"
                     /\ epoch' = epoch + 1
    /\ UNCHANGED <<error, args, file, data, split, output, fwd>>

ClearOutputBeforeFit ==
    /\ pc = "built" /\ error = "none"
    /\ output.exists
    /\ output' = Absent
    /\ UNCHANGED <<pc, error, args, file, data, model, epoch, stop_training,
                   logs, es, split, fwd>>

\* if os.path.exists(args.output): shutil.rmtree(args.output).  A removal
\* that fails part-way raises and leaves some of the files.
ClearOutput ==
    /\ pc = "fitted" /\ error = "none"
    /\ IF output.exists
       THEN \/ /\ output' = Absent
               /\ pc' = "cleared"
               /\ error' = error
            \/ /\ \E left \in SUBSET output.files :
                     output' = [exists |-> TRUE, files |-> left]
               /\ error' = "OSError"
               /\ pc' = pc
       ELSE /\ pc' = "cleared"
            /\ UNCHANGED <<output, error>>
    /\ UNCHANGED <<args, file, data, model, epoch, stop_training, logs, es,
                   split, fwd>>

\* One write of the export; a write that fails raises and adds nothing.
ExportStep(from, to, f) ==
    /\ pc = from /\ error = "none"
    /\ \/ /\ output' = WriteFile(output, f)
          /\ pc' = to
          /\ error' = error
       \/ /\ error' = "OSError"
          /\ UNCHANGED <<output, pc>>
    /\ UNCHANGED <<args, file, data, model, epoch, stop_training, logs, es,
                   split, fwd>>

\* model.save(args.output)
SaveModel == ExportStep("cleared", "saved", "saved_model")
\* model.save_weights(os.path.join(args.output, "weights.h5"))
SaveWeights == ExportStep("saved", "weights_saved", "weights.h5")
\* plot_model(model, to_file=.../model.pdf)
PlotModel == ExportStep("weights_saved", "plotted", "model.pdf")
\* plot_metrics(history, .../metrics.pdf)
PlotMetrics == ExportStep("plotted", "done", "metrics.pdf")

Next ==
    \/ LoadData
    \/ BuildModel
    \/ LoadWeights
    \/ FitBegin
    \/ TrainBatches
    \/ EpochEnd
    \/ ClearOutput
    \/ SaveModel
    \/ SaveWeights
    \/ PlotModel
    \/ PlotMetrics

Spec == Init /\ [][Next]_vars

\* fit on a well-formed batch, with the command line's defaults and no
\* earlier export: the inputs the epoch loop depends on.
TrainerInit ==
    /\ Init
    /\ ~Mismatched(file)
    /\ args.validation_split = DEFAULT_VALIDATION_SPLIT
    /\ output = Absent

\* main() is one sequential script: no step of it waits on anything, so a
\* step that can be taken is taken.
TrainerSpec == TrainerInit /\ [][Next]_vars /\ WF_vars(Next)

\* ------------------------------------------------- the policy head alone
WellFormed(n) == FileOf(n, [fld \in Fields |-> 0])

\* A built model whose policy head has k outputs, before any forward pass.
PolicyInit ==
    /\ pc = "built"
    /\ error = "none"
    /\ args = [validation_split |-> DEFAULT_VALIDATION_SPLIT,
               initial_weights |-> "none"]
    /\ file = WellFormed(2)
    /\ data = load_data(file)
    /\ \E k \in 1..MaxOutputs : model = build_model(k)
    /\ epoch = 0
    /\ stop_training = FALSE
    /\ logs = NoLogs
    /\ es = es_on_train_begin
    /\ split = NoSplit
    /\ output = Absent
    /\ fwd = NoFwd

\* One forward pass of the policy head on one sample: raw scores from the
\* linear Dense layer and the sample's output_mask.
PolicyForward ==
    /\ model.built
    /\ \E scores \in [1..model.policy_shape -> (-MaxLogit)..MaxLogit],
          mask \in [1..model.policy_shape -> {0, 1}] :
          fwd' = [computed |-> TRUE, scores |-> scores, output_mask |-> mask,
                  policy |-> PolicyHead(scores, mask)]
    /\ UNCHANGED <<pc, error, args, file, data, model, epoch, stop_training,
                   logs, es, split, output>>

PolicyNext == PolicyForward

PolicySpec == PolicyInit /\ [][PolicyNext]_vars

\* ------------------------------------------------------------ claims
PreFitPcs == {"start", "loaded", "built", "ready"}
FitPcs == {"fit_train", "fit_validate"}
PostFitPcs == {"fitted", "cleared", "saved", "weights_saved", "plotted", "done"}

\* The Trainer's state, read off main()'s position and what the callbacks
\* left behind: TerminateOnNaN stopped the run if the last epoch's training
\* loss is NaN, EarlyStopping if it recorded a stopped_epoch.
TrainerState ==
    IF pc \in PreFitPcs THEN "Init"
    ELSE IF pc \in FitPcs THEN "Fitting"
    ELSE IF logs.loss_nan THEN "Diverged"
    ELSE IF es.stopped_epoch > 0 THEN "EarlyStopped"
    ELSE "Exhausted"

C2_Orig ==
    (/\ pc \in {"fit_train"} \cup PostFitPcs
     /\ (logs.loss_nan \/ logs.val_loss_nan = <<TRUE>>)) =>
        /\ pc \in PostFitPcs
        /\ model.weights.updates = epoch

\* C3 (as claimed): with at least one legal action, the policy gives
\* probability 0 to every masked-out action and the probabilities of the
\* legal actions sum to 1.
C3_Orig ==
    (fwd.computed /\ \E i \in DOMAIN fwd.output_mask : fwd.output_mask[i] = 1) =>
        LET legal == {i \in DOMAIN fwd.output_mask : fwd.output_mask[i] = 1}
            num == [i \in DOMAIN fwd.policy |-> fwd.policy[i].num]
        IN /\ \A i \in DOMAIN fwd.policy \ legal : fwd.policy[i].num = 0
           /\ \A i \in DOMAIN fwd.policy : SumOver(num, legal) = fwd.policy[i].den

C5_Orig ==
    (pc = "done" \/ (error # "none" /\ pc \in {"cleared", "saved"})) =>
        \/ output \in {Absent, OldExport}
        \/ /\ {<<"saved_model", "new">>, <<"weights.h5", "new">>} \subseteq output.files
           /\ \A x \in output.files : x[2] = "new"

\* C6: a stored batch in which some array's element count is not n_samples
\* times its declared per-sample size is never loaded: main() stays at the
\* load, no batch is returned, and the only way on is the ValueError.
C6_ShapeMismatch ==
    Mismatched(file) =>
        /\ pc = "start"
        /\ data = NoData
        /\ error \in {"none", "ValueError"}

C6_Witness ==
    /\ file.n_samples = 2
    /\ file.size["X_history"] = 2 * MAX_HISTORY * N_ACTION_FEATURES - 1
    /\ \A fld \in Fields \ {"X_history"} :
          file.size[fld] = 2 * Prod(SampleShape(fld))
    /\ error = "ValueError"
    /\ data = NoData

C8_Resume ==
    /\ (args.initial_weights = "compatible" /\ pc \in FitPcs \cup PostFitPcs) =>
          model.weights.origin = "loaded"
    /\ args.initial_weights = "incompatible" =>
          /\ pc \in {"start", "loaded", "built"}
          /\ model.weights.updates = 0
          /\ output \in {Absent, OldExport}
          /\ (pc = "built" /\ model.built) => model.weights = FreshWeights

C8_Witness ==
    /\ args.initial_weights = "incompatible"
    /\ pc = "built"
    /\ error = "ValueError"
    /\ output = OldExport

\* C9 (as claimed): the partition fit uses is the one the caller's
\* --validation_split gives.
C9_Orig ==
    split.ok =>
        LET r == train_validation_split(data.n_samples, args.validation_split)
        IN split.val = r.val /\ split.train = r.train

\* C10: no step taken before fit has returned changes the output path, so a
\* run that fails in the load, the build, the weights load or fit leaves
\* whatever was there.
C10_OutputUntouched ==
    [][(pc \in PreFitPcs \cup FitPcs) => (output' = output)]_vars

C10_Witness ==
    /\ error # "none"
    /\ pc = "ready"
    /\ output = OldExport

=============================================================================
